---- MODULE Spec2Model ----
(***************************************************************************)
(* Model of src/rng.py: XorshiftRNG, a Xorshift64* word generator whose    *)
(* output is debiased by Von Neumann whitening into a FIFO bit buffer,     *)
(* with bit packing and rejection sampling on top.                         *)
(*                                                                         *)
(* A 64-bit word is a tuple of 64 bits; w[i + 1] is bit i of the word      *)
(* (bit 0 is the least significant). Python integers of arbitrary size     *)
(* (seeds, the multiplier) are written as their decimal digits and turned  *)
(* into bits by BitsOfDec, so that every 64-bit operation of the source    *)
(* keeps its width.                                                        *)
(***************************************************************************)
EXTENDS Integers, Sequences, FiniteSets, TLC

\* ------------------------------------------------------------ bounds

\* The driver starts a call only while fewer bits than this were drawn.
MaxDrawn == 34
\* Largest n of get_random_bits(n) besides the small ones.
MaxN == 8
\* Largest num_bits of apply_whitening(num_bits).
MaxNumBits == 4
\* Largest small max_value of get_random_number(max_value).
MaxMax == 6
\* Largest synthetic input whitened on its own.
MaxUnit == 255

\* ------------------------------------------------------------ constants

\* Width of State and of a raw word (mask 0xFFFFFFFFFFFFFFFF).
WordBits == 64
\* The three shift amounts of _xorshift64_raw.
ShiftA == 12
ShiftB == 25
ShiftC == 27
\* The refill threshold of _fill_buffer.
FillThreshold == 32
\* The default max_value of get_random_number.
DefaultMax == 256

\* ------------------------------------------------------------ integers

Bit == {0, 1}

RECURSIVE Pow2(_)
Pow2(k) == IF k = 0 THEN 1 ELSE 2 * Pow2(k - 1)

\* Decimal digits (most significant first) of d divided by two.
HalfDec(d) ==
    [k \in 1..Len(d) |-> ((IF k > 1 THEN (d[k - 1] % 2) * 10 ELSE 0) + d[k]) \div 2]

IsZeroDec(d) == \A k \in 1..Len(d) : d[k] = 0

\* The bits, least significant first, of the integer with decimal digits d.
RECURSIVE BitsOfDec(_)
BitsOfDec(d) ==
    IF IsZeroDec(d) THEN << >> ELSE <<d[Len(d)] % 2>> \o BitsOfDec(HalfDec(d))

\* The function f on 1..WordBits as a tuple of WordBits bits.
Word(f) == f \o << >>

\* The bits, least significant first, of the non-negative integer n.
RECURSIVE NatBits(_)
NatBits(n) == IF n = 0 THEN << >> ELSE <<n % 2>> \o NatBits(n \div 2)

\* n & 0xFFFFFFFFFFFFFFFF for the non-negative integer with bits b.
Mask64(b) == Word([i \in 1..WordBits |-> IF i <= Len(b) THEN b[i] ELSE 0])

ZeroWord == Word([i \in 1..WordBits |-> 0])
OneWord == Word([i \in 1..WordBits |-> IF i = 1 THEN 1 ELSE 0])

\* (x << k) & 0xFFFFFFFFFFFFFFFF
ShiftLeft64(x, k) == Word([i \in 1..WordBits |-> IF i > k THEN x[i - k] ELSE 0])
\* x >> k
ShiftRight64(x, k) ==
    Word([i \in 1..WordBits |-> IF i + k <= WordBits THEN x[i + k] ELSE 0])
\* x ^ y
Xor64(x, y) == Word([i \in 1..WordBits |-> (x[i] + y[i]) % 2])

\* The eight bytes of the word x, least significant first.
BytesOf(x) ==
    [j \in 1..8 |->
        x[8 * j - 7] + 2 * x[8 * j - 6] + 4 * x[8 * j - 5] + 8 * x[8 * j - 4]
        + 16 * x[8 * j - 3] + 32 * x[8 * j - 2] + 64 * x[8 * j - 1] + 128 * x[8 * j]] \o << >>

\* Column c (from 1) of the schoolbook product of the byte strings a and b,
\* before the carry: the sum of a[i] * b[c + 1 - i].
RECURSIVE SumProd(_, _, _, _)
SumProd(a, b, c, i) ==
    IF i > c THEN 0 ELSE a[i] * b[c + 1 - i] + SumProd(a, b, c, i + 1)

\* The low eight bytes of the product of the byte strings a and b: each
\* column with the carry of the one before.
RECURSIVE MulBytes(_, _, _, _)
MulBytes(a, b, c, carry) ==
    IF c > 8 THEN << >>
    ELSE CHOOSE r \in { <<t % 256>> \o MulBytes(a, b, c + 1, t \div 256) :
                          t \in {SumProd(a, b, c, 1) + carry} } : TRUE

\* The word with the bytes col, least significant first.
WordOfBytes(col) ==
    Word([i \in 1..WordBits |-> (col[(i - 1) \div 8 + 1] \div Pow2((i - 1) % 8)) % 2])

\* (x * y) & 0xFFFFFFFFFFFFFFFF
Mul64(x, y) ==
    CHOOSE w \in { WordOfBytes(col) :
                     col \in { MulBytes(a, b, 1, 0) :
                                 a \in {BytesOf(x)}, b \in {BytesOf(y)} } } : TRUE

\* MAGIC = 2685821657736338717
MAGIC == Mask64(BitsOfDec(<<2,6,8,5,8,2,1,6,5,7,7,3,6,3,3,8,7,1,7>>))

\* ------------------------------------------------------------ pure code

\* Faulty variant of InitState: a zero state is kept.
InitStateNoRemap(seedDec) == Mask64(BitsOfDec(seedDec))

\* __init__: self.state = seed & 0xFFFFFFFFFFFFFFFF; a zero state becomes 1.
InitState(seedDec) ==
    LET s == Mask64(BitsOfDec(seedDec))
    IN  IF s = ZeroWord THEN OneWord ELSE s

\* _xorshift64_raw: the three shift/xor steps; the value stored back in State.
XorshiftState(x0) ==
    CHOOSE x3 \in
        { Xor64(x2, ShiftLeft64(x2, ShiftC)) :
            x2 \in { Xor64(x1, ShiftRight64(x1, ShiftB)) :
                       x1 \in { Xor64(x0, ShiftLeft64(x0, ShiftA)) } } } : TRUE

\* _xorshift64_raw: result = (x * MAGIC) & 0xFFFFFFFFFFFFFFFF
XorshiftResult(x) == Mul64(x, MAGIC)

\* _extract_bit: (number >> bit_pos) & 1
ExtractBit(number, bit_pos) == IF bit_pos < WordBits THEN number[bit_pos + 1] ELSE 0

\* Faulty variant of WhitenPair: a (1,1) pair appends a 1.
WhitenPairKeepEqual(buf, raw, i) ==
    LET bit1 == ExtractBit(raw, i)
        bit2 == ExtractBit(raw, i + 1)
    IN  IF bit1 = 0 /\ bit2 = 1 THEN Append(buf, 0)
        ELSE IF bit1 = 1 THEN Append(buf, 1)
        ELSE buf

\* One iteration of the for loop of _fill_buffer: the pair at bits i, i + 1.
WhitenPair(buf, raw, i) ==
    LET bit1 == ExtractBit(raw, i)
        bit2 == ExtractBit(raw, i + 1)
    IN  IF bit1 = 0 /\ bit2 = 1 THEN Append(buf, 0)
        ELSE IF bit1 = 1 /\ bit2 = 0 THEN Append(buf, 1)
        ELSE buf

\* for i in range(0, 64, 2): the whole loop, from index i on.
RECURSIVE WhitenFrom(_, _, _)
WhitenFrom(buf, raw, i) ==
    IF i >= WordBits THEN buf ELSE WhitenFrom(WhitenPair(buf, raw, i), raw, i + 2)

\* Faulty variant of FillContinues: the loop runs only while the buffer is
\* empty, as the docstring of _fill_buffer words it.
FillContinuesWhileEmpty(buf) == Len(buf) = 0

\* while len(self.bit_buffer) < 32
FillContinues(buf) == Len(buf) < FillThreshold

\* Faulty variant of PopFront: pop() takes the last bit.
PopBack(buf) == [bit |-> buf[Len(buf)], rest |-> SubSeq(buf, 1, Len(buf) - 1)]

\* bit = self.bit_buffer.pop(0)
PopFront(buf) == [bit |-> Head(buf), rest |-> Tail(buf)]

\* a | b on non-negative integers
RECURSIVE OrInt(_, _)
OrInt(a, b) ==
    IF a = 0 THEN b
    ELSE IF b = 0 THEN a
    ELSE (IF a % 2 = 1 \/ b % 2 = 1 THEN 1 ELSE 0) + 2 * OrInt(a \div 2, b \div 2)

\* Faulty variant of PlaceBit: the first bit drawn ends up most significant.
PlaceBitMsbFirst(result, bit, i) == 2 * result + bit

\* apply_whitening: result |= (bit << i)
PlaceBit(result, bit, i) == OrInt(result, bit * Pow2(i))

\* int.bit_length() of a non-negative integer
RECURSIVE BitLengthOf(_)
BitLengthOf(n) == IF n <= 0 THEN 0 ELSE 1 + BitLengthOf(n \div 2)

\* Faulty variant of BitLength: the width of max_value - 1.
BitLengthMinimal(max_value) == BitLengthOf(max_value - 1)

\* get_random_number: bit_length = max_value.bit_length()
BitLength(max_value) == BitLengthOf(max_value)

\* Faulty variant of Degenerate: max_value = 1 goes on to sample.
DegenerateBelowOne(max_value) == max_value < 1

\* get_random_number: if max_value <= 1: return 0
Degenerate(max_value) == max_value <= 1

\* Faulty variant of Accept: a candidate equal to max_value is returned.
AcceptInclusive(num, max_value) == num <= max_value

\* get_random_number: if num < max_value: return num
Accept(num, max_value) == num < max_value

\* ------------------------------------------------------------ state

\* The two generator objects of the driver.
G == {1, 2}

\* Seeds handed to the constructor, as decimal digits: 0, 1, 42, the default
\* 1234567890, and 2^64 (low 64 bits all zero).
Seeds ==
    { <<0>>, <<1>>, <<4,2>>, <<1,2,3,4,5,6,7,8,9,0>>,
      <<1,8,4,4,6,7,4,4,0,7,3,7,0,9,5,5,1,6,1,6>> }

\* The seeds of the two generators: the same seed twice, or two seeds the
\* constructor normalises alike.
SeedPairs ==
    { <<s, s>> : s \in Seeds }
    \cup { <<Seeds0, <<1>> >> : Seeds0 \in { <<0>>, <<1,8,4,4,6,7,4,4,0,7,3,7,0,9,5,5,1,6,1,6>> } }

NCounts == {0, 1, MaxN}
NumBitsArgs == 0..MaxNumBits
MaxValues == (-1..MaxMax) \cup {DefaultMax}

VARIABLES
    seed,        \* seed[g]: the constructor's argument
    state,       \* state[g]: self.state
    bit_buffer,  \* bit_buffer[g]: self.bit_buffer
    pc,          \* pc[g]: where the call in progress on g stands
    frame,       \* frame[g]: the public call in progress (or the last one) and its locals
    ret,         \* ret[g]: what the call on g returned: <<v>> for an integer v, the
                 \* list itself for get_random_bits, << >> while it has not returned
    words,       \* words[g]: the raw words _xorshift64_raw returned to g's calls, in order
    delivered,   \* delivered[g]: the bits generate_raw_bit returned to g's calls, in order
    entry,       \* entry[g]: State, buffer and stream positions when the call was made
    uraw,        \* whitening on its own: the raw word being scanned
    ui,          \* whitening on its own: the loop index i
    uout         \* whitening on its own: the bits appended so far

gen_vars == <<seed, state, bit_buffer, pc, frame, ret, words, delivered, entry>>
unit_vars == <<uraw, ui, uout>>
vars == <<seed, state, bit_buffer, pc, frame, ret, words, delivered, entry,
          uraw, ui, uout>>

\* Faulty variant of Self: State and buffer are class attributes, shared by
\* all generators.
SelfShared(g) == 1

\* self: the object whose fields a method called on generator g reads and writes.
Self(g) == g

NewFrame(op, arg, width) ==
    [op |-> op, arg |-> arg, width |-> width, i |-> 0, result |-> 0,
     bits |-> << >>, cands |-> << >>]

Snapshot(g) ==
    [state |-> state[Self(g)], buf |-> bit_buffer[Self(g)],
     drawn |-> Len(delivered[g]), pulled |-> Len(words[g])]

\* XorshiftRNG(seed) for both generators.
Construct(s1, s2) ==
    /\ seed = <<s1, s2>>
    /\ state = <<InitState(s1), InitState(s2)>>
    /\ bit_buffer = << << >>, << >> >>
    /\ pc = <<"idle", "idle">>
    /\ frame = [g \in G |-> NewFrame("__init__", 0, 0)]
    /\ ret = << << >>, << >> >>
    /\ words = << << >>, << >> >>
    /\ delivered = << << >>, << >> >>
    /\ entry = [g \in G |->
                  [state |-> InitState(seed[g]), buf |-> << >>, drawn |-> 0, pulled |-> 0]]

Init ==
    /\ \E sp \in SeedPairs : Construct(sp[1], sp[2])
    /\ uraw = ZeroWord
    /\ ui = WordBits
    /\ uout = << >>

\* ------------------------------------------------------------ the driver

\* The driver makes every call on generator 1 and then, with the same
\* arguments, on generator 2: r1 = a.op(arg); r2 = b.op(arg). Generator 2
\* waits until the call on generator 1 has returned.
Call(op, arg, width, returns, value) ==
    /\ \A g \in G : pc[g] = "idle"
    /\ Len(delivered[1]) < MaxDrawn
    /\ frame' = [g \in G |-> NewFrame(op, arg, width)]
    /\ entry' = [g \in G |-> Snapshot(g)]
    /\ pc' = IF returns THEN pc ELSE <<"bit", "wait">>
    /\ ret' = [g \in G |-> IF returns THEN value ELSE << >>]
    /\ UNCHANGED <<seed, state, bit_buffer, words, delivered, unit_vars>>

\* generate_raw_bit(): asks for one bit.
generate_raw_bit == Call("generate_raw_bit", 0, 0, FALSE, << >>)

\* get_random_bits(n): for _ in range(n) is empty when n <= 0.
get_random_bits(n) == Call("get_random_bits", n, 0, n <= 0, << >>)

\* apply_whitening(num_bits): for i in range(num_bits) is empty when num_bits <= 0.
apply_whitening(num_bits) ==
    Call("apply_whitening", num_bits, num_bits, num_bits <= 0, <<0>>)

\* get_random_number(max_value): returns 0 at once for max_value <= 1, and
\* otherwise enters apply_whitening(bit_length).
get_random_number(max_value) ==
    IF Degenerate(max_value)
    THEN Call("get_random_number", max_value, 0, TRUE, <<0>>)
    ELSE Call("get_random_number", max_value, BitLength(max_value), FALSE, << >>)

\* The call on g returns: g is idle again, and a waiting generator starts.
Resume(g) ==
    [h \in G |-> IF h = g THEN "idle" ELSE IF pc[h] = "wait" THEN "bit" ELSE pc[h]]

\* The call on g goes on to its next generate_raw_bit call.
Continue(g) == [pc EXCEPT ![g] = "bit"]

\* ------------------------------------------------------------ inside a call

\* generate_raw_bit hands bit to its caller, which runs on to its next
\* generate_raw_bit call or to its return.
Deliver(g, bit) ==
    LET f == frame[g]
        packed == PlaceBit(f.result, bit, f.i)
        full == f.i + 1 = f.width
    IN  /\ delivered' = [delivered EXCEPT ![g] = Append(@, bit)]
        /\ CASE f.op = "generate_raw_bit" ->
                  /\ frame' = frame
                  /\ ret' = [ret EXCEPT ![g] = <<bit>>]
                  /\ pc' = Resume(g)
             [] f.op = "get_random_bits" ->
                  LET bits == Append(f.bits, bit)
                      done == Len(bits) = f.arg
                  IN  /\ frame' = [frame EXCEPT ![g].bits = bits]
                      /\ ret' = [ret EXCEPT ![g] = IF done THEN bits ELSE @]
                      /\ pc' = IF done THEN Resume(g) ELSE Continue(g)
             [] f.op = "apply_whitening" ->
                  /\ frame' = [frame EXCEPT ![g].result = packed, ![g].i = f.i + 1]
                  /\ ret' = [ret EXCEPT ![g] = IF full THEN <<packed>> ELSE @]
                  /\ pc' = IF full THEN Resume(g) ELSE Continue(g)
             [] f.op = "get_random_number" ->
                  IF ~full
                  THEN /\ frame' = [frame EXCEPT ![g].result = packed, ![g].i = f.i + 1]
                       /\ ret' = ret
                       /\ pc' = Continue(g)
                  ELSE IF Accept(packed, f.arg)
                  THEN /\ frame' = [frame EXCEPT ![g].result = packed, ![g].i = f.i + 1,
                                                 ![g].cands = Append(@, packed)]
                       /\ ret' = [ret EXCEPT ![g] = <<packed>>]
                       /\ pc' = Resume(g)
                  ELSE /\ frame' = [frame EXCEPT ![g].result = 0, ![g].i = 0,
                                                 ![g].cands = Append(@, packed)]
                       /\ ret' = ret
                       /\ pc' = Continue(g)

\* generate_raw_bit with bits in the buffer: pop the front one and return it.
RawBitHit(g) ==
    /\ pc[g] = "bit"
    /\ Len(bit_buffer[Self(g)]) # 0
    /\ LET p == PopFront(bit_buffer[Self(g)])
       IN  /\ bit_buffer' = [bit_buffer EXCEPT ![Self(g)] = p.rest]
           /\ Deliver(g, p.bit)
    /\ UNCHANGED <<seed, state, words, entry, unit_vars>>

\* generate_raw_bit with an empty buffer: _fill_buffer is entered and its
\* while condition evaluated for the first time.
RawBitMiss(g) ==
    /\ pc[g] = "bit"
    /\ Len(bit_buffer[Self(g)]) = 0
    /\ pc' = [pc EXCEPT ![g] = IF FillContinues(bit_buffer[Self(g)]) THEN "fill" ELSE "pop"]
    /\ UNCHANGED <<seed, state, bit_buffer, frame, ret, words, delivered, entry,
                   unit_vars>>

\* One iteration of the while loop of _fill_buffer: a raw word is pulled and
\* whitened into the buffer, and the while condition is evaluated again.
FillWord(g) ==
    /\ pc[g] = "fill"
    /\ \E x \in {XorshiftState(state[Self(g)])} :
       \E raw \in {XorshiftResult(x)} :
       \E buf \in {WhitenFrom(bit_buffer[Self(g)], raw, 0)} :
           /\ state' = [state EXCEPT ![Self(g)] = x]
           /\ bit_buffer' = [bit_buffer EXCEPT ![Self(g)] = buf]
           /\ words' = [words EXCEPT ![g] = Append(@, raw)]
           /\ pc' = [pc EXCEPT ![g] = IF FillContinues(buf) THEN "fill" ELSE "pop"]
    /\ UNCHANGED <<seed, frame, ret, delivered, entry, unit_vars>>

\* generate_raw_bit after _fill_buffer returned: pop(0), which raises
\* IndexError on an empty list.
RawBitPop(g) ==
    /\ pc[g] = "pop"
    /\ IF Len(bit_buffer[Self(g)]) = 0
       THEN /\ pc' = [pc EXCEPT ![g] = "IndexError"]
            /\ UNCHANGED <<bit_buffer, frame, ret, delivered>>
       ELSE LET p == PopFront(bit_buffer[Self(g)])
            IN  /\ bit_buffer' = [bit_buffer EXCEPT ![Self(g)] = p.rest]
                /\ Deliver(g, p.bit)
    /\ UNCHANGED <<seed, state, words, entry, unit_vars>>

Next ==
    \/ generate_raw_bit
    \/ \E n \in NCounts : get_random_bits(n)
    \/ \E num_bits \in NumBitsArgs : apply_whitening(num_bits)
    \/ \E max_value \in MaxValues : get_random_number(max_value)
    \/ \E g \in G : RawBitHit(g)
    \/ \E g \in G : RawBitMiss(g)
    \/ \E g \in G : FillWord(g)
    \/ \E g \in G : RawBitPop(g)

Spec == Init /\ [][Next]_vars

\* A call in progress runs on: the program is one thread that keeps executing
\* the method it is in. The driver is free to stop making calls.
InCall == \E g \in G : RawBitHit(g) \/ RawBitMiss(g) \/ FillWord(g) \/ RawBitPop(g)

LiveSpec == Spec /\ WF_vars(InCall)

\* ------------------------------------------------------------ whitening on its own

\* The default seed of the constructor.
DefaultSeed == <<1,2,3,4,5,6,7,8,9,0>>

\* Synthetic raw words: the integers 0..MaxUnit.
UnitInputs == { Mask64(NatBits(n)) : n \in 0..MaxUnit }

UnitInit ==
    /\ Construct(DefaultSeed, DefaultSeed)
    /\ uraw \in UnitInputs
    /\ ui = 0
    /\ uout = << >>

\* One iteration of for i in range(0, 64, 2) on the word uraw.
WhitenStep ==
    /\ ui < WordBits
    /\ uout' = WhitenPair(uout, uraw, ui)
    /\ ui' = ui + 2
    /\ UNCHANGED <<uraw, gen_vars>>

UnitNext == WhitenStep

UnitSpec == UnitInit /\ [][UnitNext]_vars

\* ------------------------------------------------------------ properties

\* The call on g (the one in progress, or the last one) is a call of op.
InOp(g, op) == frame[g].op = op

\* The last call on g was a call of op and has returned.
Returned(g, op) == pc[g] = "idle" /\ frame[g].op = op

\* The bits generate_raw_bit has returned to the call on g since it was made.
Drawn(g) == SubSeq(delivered[g], entry[g].drawn + 1, Len(delivered[g]))

\* The raw words pulled by the call on g since it was made.
Pulled(g) == SubSeq(words[g], entry[g].pulled + 1, Len(words[g]))

\* The call on g has so far left State and the bit buffer as it found them.
Untouched(g) ==
    /\ state[g] = entry[g].state
    /\ bit_buffer[g] = entry[g].buf
    /\ Drawn(g) = << >>
    /\ Pulled(g) = << >>

\* b_0 + 2 b_1 + 4 b_2 + ... for the bits b_0, b_1, ... in the order given.
RECURSIVE PackValue(_)
PackValue(bits) == IF bits = << >> THEN 0 ELSE Head(bits) + 2 * PackValue(Tail(bits))

\* Von Neumann's rule on one raw word, stated on its own: of the 32 pairs
\* (w[i], w[i+1]), i = 0, 2, ..., 62, keep those whose bits differ, in order;
\* (0,1) gives 0 and (1,0) gives 1.
Differs(pair) == pair[1] # pair[2]

VonNeumann(w) ==
    LET pairs == [k \in 1..(WordBits \div 2) |-> <<w[2 * k - 1], w[2 * k]>>]
        kept == SelectSeq(pairs, Differs)
    IN  [k \in 1..Len(kept) |-> IF kept[k] = <<0, 1>> THEN 0 ELSE 1]

RECURSIVE VonNeumannAll(_)
VonNeumannAll(ws) ==
    IF ws = << >> THEN << >> ELSE VonNeumann(Head(ws)) \o VonNeumannAll(Tail(ws))

\* C1: whenever get_random_number(max_value) with max_value > 1 has returned,
\* on any generator, for any seed and after any earlier calls, the value v it
\* returned satisfies 0 <= v < max_value.
C1_BoundedRange ==
    \A g \in G :
        (Returned(g, "get_random_number") /\ frame[g].arg > 1)
            => (\E v \in 0..(frame[g].arg - 1) : ret[g] = <<v>>)

\* A bounded sample returned after at least one candidate was rejected.
C1_Witness ==
    \E g \in G :
        /\ Returned(g, "get_random_number")
        /\ frame[g].arg = 5
        /\ Len(frame[g].cands) >= 2
        /\ Len(words[g]) >= 3

\* C2: get_random_number(max_value) with max_value <= 1 returns 0 at once and
\* leaves State and the bit buffer (contents and length) as they were: no bit
\* is consumed and no raw word is pulled.
C2_DegenerateRange ==
    \A g \in G :
        (InOp(g, "get_random_number") /\ frame[g].arg <= 1)
            => (pc[g] = "idle" /\ ret[g] = <<0>> /\ Untouched(g))

\* get_random_number(1) has returned on a generator with bits in its buffer.
C2_Witness ==
    \E g \in G :
        /\ Returned(g, "get_random_number")
        /\ frame[g].arg = 1
        /\ Len(bit_buffer[g]) > 0
        /\ Len(delivered[g]) > 0

\* C3: State is a 64-bit value other than zero in every state, whatever the
\* seed (0 and 2^64, whose low 64 bits are zero, included), between calls,
\* inside calls and between the words of a refill.
C3_StateNeverZero ==
    \A g \in G :
        /\ state[g] \in [1..WordBits -> Bit]
        /\ state[g] # ZeroWord

\* Inside a refill, after its first word, on a generator built from 2^64.
C3_Witness ==
    \E g \in G :
        /\ seed[g] = <<1,8,4,4,6,7,4,4,0,7,3,7,0,9,5,5,1,6,1,6>>
        /\ pc[g] = "fill"
        /\ Len(words[g]) >= 3

\* Generators g and h are in the same state and their callers have seen the same.
Agree(g, h) ==
    /\ state[g] = state[h]
    /\ bit_buffer[g] = bit_buffer[h]
    /\ ret[g] = ret[h]
    /\ words[g] = words[h]
    /\ delivered[g] = delivered[h]

\* Every call made so far has returned on both generators.
InStep == \A g \in G : pc[g] = "idle"

\* C4: two generators built from the same seed and given the same calls with
\* the same arguments are, after every call, in the same State with the same
\* bit buffer, and have returned the same raw words, the same whitened bits
\* and the same values.
C4_Determinism ==
    \A g \in G, h \in G :
        (seed[g] = seed[h] /\ InStep) => (frame[g] = frame[h] /\ Agree(g, h))

\* Two generators with the same seed, in step after a bounded sample that
\* rejected a candidate and after a second refill.
C4_Witness ==
    /\ seed[1] = seed[2]
    /\ InStep
    /\ InOp(2, "get_random_number")
    /\ Len(frame[2].cands) >= 2
    /\ Len(words[2]) >= 4
    /\ Len(delivered[2]) > FillThreshold

\* C6: apply_whitening(num_bits) takes num_bits bits b_0, b_1, ... from the
\* front of the bit stream, in order, and returns the sum of b_k 2^k, a value
\* in [0, 2^num_bits): the first bit drawn is the least significant. With
\* num_bits = 0 it returns 0, consumes no bit and pulls no raw word.
C6_PackingOrder ==
    \A g \in G :
        InOp(g, "apply_whitening") =>
            LET n == frame[g].arg
                d == Drawn(g)
            IN  /\ Len(d) = frame[g].i
                /\ Len(d) <= n
                /\ frame[g].result = PackValue(d)
                /\ d \o bit_buffer[g] = entry[g].buf \o VonNeumannAll(Pulled(g))
                /\ pc[g] = "idle" =>
                      /\ Len(d) = n
                      /\ ret[g] = <<PackValue(d)>>
                      /\ \E v \in 0..(Pow2(n) - 1) : ret[g] = <<v>>
                      /\ d = <<1, 0, 1>> => ret[g] = <<5>>
                /\ n = 0 => (pc[g] = "idle" /\ ret[g] = <<0>> /\ Untouched(g))

\* apply_whitening(3) drew the bits 1, 0, 1 and returned.
C6_Witness ==
    \E g \in G :
        /\ Returned(g, "apply_whitening")
        /\ frame[g].arg = 3
        /\ Drawn(g) = <<1, 0, 1>>
        /\ ret[g] = <<5>>

\* C7: a generator built with seed 0 starts as one built with seed 1 does
\* (State = 1, empty bit buffer), and under the same calls the two return the
\* same values at every step.
C7_SeedNormalization ==
    \A g \in G, h \in G :
        (seed[g] = <<0>> /\ seed[h] = <<1>>) =>
            /\ InOp(g, "__init__") =>
                  (state[g] = OneWord /\ bit_buffer[g] = << >> /\ Agree(g, h))
            /\ InStep => Agree(g, h)

\* Seed 0 beside seed 1, in step after calls that drew bits across a second refill.
C7_Witness ==
    /\ seed[1] = <<0>>
    /\ seed[2] = <<1>>
    /\ InStep
    /\ Len(words[1]) >= 3
    /\ Len(delivered[2]) > FillThreshold

\* The width the claim gives for max_value: 2^(w-1) <= max_value < 2^w.
WidthFor(max_value) ==
    CHOOSE w \in 1..31 : Pow2(w - 1) <= max_value /\ (w = 31 \/ max_value < Pow2(w))

\* Candidate k of the call on g: the k-th group of w bits it drew, packed.
Candidate(g, k, w) == PackValue(SubSeq(Drawn(g), (k - 1) * w + 1, k * w))

\* C8: get_random_number(max_value) with max_value > 1 uses
\* width = bit_length(max_value), so 2^(width-1) <= max_value < 2^width (9 for
\* 256); its candidates are successive packs of width bits; it returns the
\* first candidate below max_value, every earlier one being >= max_value;
\* with k candidates drawn it has removed k * width bits from the stream.
C8_RejectionWidth ==
    \A g \in G :
        (InOp(g, "get_random_number") /\ frame[g].arg > 1) =>
            LET mx == frame[g].arg
                w == frame[g].width
                c == frame[g].cands
                k == Len(c)
            IN  /\ w = WidthFor(mx)
                /\ mx = DefaultMax => w = 9
                /\ \A j \in 1..k : c[j] = Candidate(g, j, w)
                /\ \A j \in 1..(k - 1) : c[j] >= mx
                /\ pc[g] # "idle" =>
                      /\ \A j \in 1..k : c[j] >= mx
                      /\ Len(Drawn(g)) = k * w + frame[g].i
                      /\ frame[g].i < w
                /\ pc[g] = "idle" =>
                      /\ k >= 1
                      /\ ret[g] = <<c[k]>>
                      /\ c[k] < mx
                      /\ Len(Drawn(g)) = k * w
                      /\ Drawn(g) \o bit_buffer[g]
                            = entry[g].buf \o VonNeumannAll(Pulled(g))

\* get_random_number(256) returned its second 9-bit candidate.
C8_Witness ==
    \E g \in G :
        /\ Returned(g, "get_random_number")
        /\ frame[g].arg = DefaultMax
        /\ frame[g].width = 9
        /\ Len(frame[g].cands) = 2
        /\ Len(Drawn(g)) = 18

\* The synthetic inputs of the whitening example, as raw words.
Input01101001 == Mask64(NatBits(105))
Input10111001 == Mask64(NatBits(185))

\* The pairs (w[i], w[i+1]) of w for i = 0, 2, ..., below 2 n.
PairsOf(w, n) == [k \in 1..n |-> <<ExtractBit(w, 2 * k - 2), ExtractBit(w, 2 * k - 1)>>]

\* C5 as stated: whitening the 8-bit input 01101001, scanned least significant
\* bit first in non-overlapping pairs, sees the pairs (1,0), (0,1), (1,1), (0,1)
\* and emits exactly the three bits 1, 0, 0.
C5_AsStated ==
    (uraw = Input01101001 /\ ui >= 8) =>
        /\ PairsOf(uraw, 4) = << <<1, 0>>, <<0, 1>>, <<1, 1>>, <<0, 1>> >>
        /\ uout = <<1, 0, 0>>

\* C5, amended: whitening the 8-bit input 01101001, scanned least significant
\* bit first in non-overlapping pairs, sees the pairs (1,0), (0,1), (0,1), (1,0)
\* and emits exactly the four bits 1, 0, 0, 1. The pairs (1,0), (0,1), (1,1),
\* (0,1) are those of the input 10111001, for which exactly the three bits
\* 1, 0, 0 are emitted: its (1,1) pair appends nothing.
C5_WhiteningExample ==
    /\ uraw = Input01101001 =>
          /\ PairsOf(uraw, 4) = << <<1, 0>>, <<0, 1>>, <<0, 1>>, <<1, 0>> >>
          /\ ui = 2 => uout = <<1>>
          /\ ui = 4 => uout = <<1, 0>>
          /\ ui = 6 => uout = <<1, 0, 0>>
          /\ ui >= 8 => uout = <<1, 0, 0, 1>>
    /\ uraw = Input10111001 =>
          /\ PairsOf(uraw, 4) = << <<1, 0>>, <<0, 1>>, <<1, 1>>, <<0, 1>> >>
          /\ ui = 2 => uout = <<1>>
          /\ ui = 4 => uout = <<1, 0>>
          /\ ui = 6 => uout = <<1, 0>>
          /\ ui >= 8 => uout = <<1, 0, 0>>

\* The whole loop has run on the input 10111001, the one with a (1,1) pair.
C5_Witness ==
    /\ uraw = Input10111001
    /\ ui = WordBits
    /\ uout = <<1, 0, 0>>

\* A step changes the buffer of g only by removing its front bit, which is
\* handed out, or by appending the whitened bits of the one word just pulled.
FifoStep(g) ==
    \/ /\ bit_buffer'[g] = bit_buffer[g]
       /\ delivered'[g] = delivered[g]
       /\ words'[g] = words[g]
       /\ state'[g] = state[g]
    \/ /\ bit_buffer[g] # << >>
       /\ bit_buffer'[g] = Tail(bit_buffer[g])
       /\ delivered'[g] = Append(delivered[g], Head(bit_buffer[g]))
       /\ words'[g] = words[g]
       /\ state'[g] = state[g]
    \/ /\ Len(words'[g]) = Len(words[g]) + 1
       /\ SubSeq(words'[g], 1, Len(words[g])) = words[g]
       /\ bit_buffer'[g] = bit_buffer[g] \o VonNeumann(words'[g][Len(words'[g])])
       /\ delivered'[g] = delivered[g]
       /\ \E x \in {XorshiftState(state[g])} :
             /\ state'[g] = x
             /\ words'[g][Len(words'[g])] = XorshiftResult(x)

AwaitingBit(g) == pc[g] \in {"bit", "fill", "pop"}

\* The number of bits generate_raw_bit has returned so far. At most one
\* generator is inside a call at a time, so the count grows by one exactly
\* when the generate_raw_bit call in progress returns.
HandedOut == Len(delivered[1]) + Len(delivered[2])

====
